---- MODULE Spec2Model ----
(***************************************************************************)
(* Model of scripts/data_cleaning.py: clean_earnings_data(input_csv,       *)
(* output_csv).  Text is modelled character by character: a cell is a      *)
(* sequence of one-character strings, the output file is a flat sequence   *)
(* of characters.  Floating-point amounts are modelled as exact decimals   *)
(* in canonical form (integer digits, fraction digits); for the short      *)
(* plain-decimal strings of this model the shortest-repr of a double is    *)
(* that canonical decimal.  Inputs are in plain decimal notation (no       *)
(* exponent, no '+', ASCII digits only) and every data line has as many    *)
(* cells as the header; header names are distinct and non-empty.           *)
(***************************************************************************)
EXTENDS Integers, Sequences, FiniteSets, TLC

VARIABLES inFile, outFile, outBefore, last

vars == <<inFile, outFile, outBefore, last>>

----------------------------------------------------------------------------
(* Bounds *)

MaxRows == 2
MaxAmountLen == 3

----------------------------------------------------------------------------
(* Characters and generic string helpers *)

Digits == {"0", "1", "2", "3", "4", "5", "6", "7", "8", "9"}

RECURSIVE RemoveChars(_, _)
RemoveChars(s, cs) ==
  IF s = <<>> THEN <<>>
  ELSE IF Head(s) \in cs THEN RemoveChars(Tail(s), cs)
       ELSE <<Head(s)>> \o RemoveChars(Tail(s), cs)

RECURSIVE LStrip(_)
LStrip(s) ==
  IF s # <<>> /\ Head(s) = " " THEN LStrip(Tail(s)) ELSE s

RECURSIVE RStrip(_)
RStrip(s) ==
  IF s # <<>> /\ s[Len(s)] = " " THEN RStrip(SubSeq(s, 1, Len(s) - 1)) ELSE s

Strip(s) == RStrip(LStrip(s))

AllDigits(s) == \A i \in 1..Len(s) : s[i] \in Digits

\* Python str.isdigit(): non-empty and every character a digit.
IsDigit(s) == s # <<>> /\ AllDigits(s)

RECURSIVE StripLeadingZeros(_)
StripLeadingZeros(d) ==
  IF d # <<>> /\ Head(d) = "0" THEN StripLeadingZeros(Tail(d)) ELSE d

RECURSIVE StripTrailingZeros(_)
StripTrailingZeros(d) ==
  IF d # <<>> /\ d[Len(d)] = "0"
  THEN StripTrailingZeros(SubSeq(d, 1, Len(d) - 1)) ELSE d

\* Index of the first occurrence of c in s, 0 if none.
RECURSIVE IndexOf(_, _, _)
IndexOf(s, c, i) ==
  IF i > Len(s) THEN 0 ELSE IF s[i] = c THEN i ELSE IndexOf(s, c, i + 1)

\* Split s on the separator character c (Python str.split(c)).
RECURSIVE Split(_, _)
Split(s, c) ==
  LET k == IndexOf(s, c, 1)
  IN IF k = 0 THEN <<s>>
     ELSE <<SubSeq(s, 1, k - 1)>> \o Split(SubSeq(s, k + 1, Len(s)), c)

RECURSIVE Concat(_)
Concat(ss) == IF ss = <<>> THEN <<>> ELSE Head(ss) \o Concat(Tail(ss))

SeqsUpTo(S, n) == UNION {[1..k -> S] : k \in 0..n}

----------------------------------------------------------------------------
(* Values held in a DataFrame cell *)

NaN == [k |-> "nan", neg |-> FALSE, ip |-> <<>>, fp |-> <<>>, s |-> <<>>]
StrVal(s) == [k |-> "str", neg |-> FALSE, ip |-> <<>>, fp |-> <<>>, s |-> s]
IntVal(neg, ip) ==
  LET d == StripLeadingZeros(ip)
  IN [k |-> "int", neg |-> neg /\ d # <<>>, ip |-> d, fp |-> <<>>, s |-> <<>>]
FloatVal(neg, ip, fp) ==
  [k |-> "float", neg |-> neg, ip |-> StripLeadingZeros(ip),
   fp |-> StripTrailingZeros(fp), s |-> <<>>]

ParseAt(neg, body, dot) ==
  [ok    |-> /\ IsDigit(RemoveChars(body, {"."}))
             /\ (dot = 0 \/ IndexOf(body, ".", dot + 1) = 0),
   isInt |-> dot = 0, neg |-> neg,
   ip    |-> SubSeq(body, 1, IF dot = 0 THEN Len(body) ELSE dot - 1),
   fp    |-> SubSeq(body, IF dot = 0 THEN Len(body) + 1 ELSE dot + 1, Len(body))]

ParseBody(neg, body) == ParseAt(neg, body, IndexOf(body, ".", 1))

ParseSigned(t) ==
  IF t # <<>> /\ Head(t) = "-" THEN ParseBody(TRUE, Tail(t))
  ELSE ParseBody(FALSE, t)

\* Decimal literal: optional surrounding blanks, optional '-', digits with
\* at most one '.', at least one digit.
ParseNum(cell) == ParseSigned(Strip(cell))

\* str(x) for the values of a column (Series.astype(str)).
ToStr(v) ==
  LET sign == IF v.neg THEN <<"-">> ELSE <<>>
      ipart == IF v.ip = <<>> THEN <<"0">> ELSE v.ip
      fpart == IF v.fp = <<>> THEN <<"0">> ELSE v.fp
  IN CASE v.k = "nan"   -> <<"n", "a", "n">>
       [] v.k = "str"   -> v.s
       [] v.k = "int"   -> sign \o ipart
       [] v.k = "float" -> sign \o ipart \o <<".">> \o fpart

----------------------------------------------------------------------------
(* pd.read_csv(input_csv, sep='\t', engine='python', header=0) *)

\* Cells that read_csv turns into NaN (those of pandas' default list that
\* the inputs of this model can spell).
NaValues == { <<>>, <<"N", "/", "A">>, <<"N", "A">>, <<"n", "a", "n">> }

IsNa(cell) == cell \in NaValues

\* Type inference of one column from its cells' NA flags and parses: all
\* non-NA cells integers and no NA -> int64; all non-NA cells numbers ->
\* float64 (NA cells NaN); otherwise the column keeps its strings (NA cells
\* NaN).
InferFrom(cells, na, p) ==
  [i \in 1..Len(cells) |->
     IF na[i] THEN NaN
     ELSE IF \E j \in 1..Len(cells) : ~na[j] /\ ~p[j].ok THEN StrVal(cells[i])
     ELSE IF \A j \in 1..Len(cells) : ~na[j] /\ p[j].isInt
          THEN IntVal(p[i].neg, p[i].ip)
          ELSE FloatVal(p[i].neg, p[i].ip, p[i].fp)]

InferColumn(cells) ==
  InferFrom(cells, [i \in 1..Len(cells) |-> IsNa(cells[i])],
            [i \in 1..Len(cells) |-> ParseNum(cells[i])])

\* Column j of the data lines.
Column(rows, j) == InferColumn([i \in 1..Len(rows) |-> rows[i][j]])

\* Rows of values from columns of values.
Frame(cols, nrow) ==
  [i \in 1..nrow |-> [j \in 1..Len(cols) |-> cols[j][i]]]

ReadRows(file) ==
  Frame([j \in 1..Len(file.header) |-> Column(file.rows, j)], Len(file.rows))

\* Variant: a file without data rows is reported as empty as well.
ReadCsvNoRowsEmpty(file) ==
  IF ~file.exists
  THEN [error |-> "FileNotFoundError", columns |-> <<>>, data |-> <<>>]
  ELSE IF Len(file.header) = 0 \/ Len(file.rows) = 0
  THEN [error |-> "EmptyDataError", columns |-> <<>>, data |-> <<>>]
  ELSE [error |-> "none", columns |-> file.header, data |-> ReadRows(file)]

\* The parsed table: column names and, per data row, one value per column.
\* error: "FileNotFoundError", "EmptyDataError" or "none".
ReadCsv(file) ==
  IF ~file.exists
  THEN [error |-> "FileNotFoundError", columns |-> <<>>, data |-> <<>>]
  ELSE IF Len(file.header) = 0
  THEN [error |-> "EmptyDataError", columns |-> <<>>, data |-> <<>>]
  ELSE [error |-> "none", columns |-> file.header, data |-> ReadRows(file)]

----------------------------------------------------------------------------
(* Column normalization and schema check *)

KeepCols == 3

\* Variant: no column is dropped.
TruncateNone(columns) == columns

\* if num_cols > 3: df = df.iloc[:, :3]
Truncate(columns) ==
  IF Len(columns) > KeepCols THEN SubSeq(columns, 1, KeepCols) ELSE columns

ColumnSet(columns) == {columns[j] : j \in 1..Len(columns)}

\* not ('Period' not in df.columns or 'Amount' not in df.columns)
SchemaOk(columns) ==
  ~("Period" \notin ColumnSet(columns) \/ "Amount" \notin ColumnSet(columns))

ColumnIndex(columns, name) == CHOOSE j \in 1..Len(columns) : columns[j] = name

\* df[['Period', 'Amount']]: one record per data row, idx its row label.
Select(columns, data) ==
  [i \in 1..Len(data) |->
     [idx    |-> i,
      Period |-> data[i][ColumnIndex(columns, "Period")],
      Amount |-> data[i][ColumnIndex(columns, "Amount")]]]

----------------------------------------------------------------------------
(* Amount sanitization, numeric validation, type coercion, null filtering *)

\* Variant: only '$' is removed.
SanitizeDollarOnly(v) == Strip(RemoveChars(ToStr(v), {"$"}))

\* .astype(str).str.replace('[\$,]', '', regex=True).str.strip()
Sanitize(v) == Strip(RemoveChars(ToStr(v), {"$", ","}))

\* .str.replace('.', '', regex=False).str.isdigit()
AmountNumeric(s) == IsDigit(RemoveChars(s, {"."}))

RECURSIVE KeepRows(_, _)
KeepRows(recs, keep) ==
  IF recs = <<>> THEN <<>>
  ELSE IF Head(recs).idx \in keep
       THEN <<Head(recs)>> \o KeepRows(Tail(recs), keep)
       ELSE KeepRows(Tail(recs), keep)

FloatOf(p) == [ok |-> p.ok, val |-> FloatVal(p.neg, p.ip, p.fp)]

\* float(s) of a string: the value, or failure (ValueError).
AsFloat(s) == FloatOf(ParseNum(s))

\* Variant: dropna(subset=['Amount'])
DropNaAmountOnly == {"Amount"}

\* dropna(subset=['Period', 'Amount'])
DropNaSubset == {"Period", "Amount"}

DropNa(recs) ==
  KeepRows(recs, {recs[i].idx : i \in
     {i \in 1..Len(recs) : \A c \in DropNaSubset : recs[i][c].k # "nan"}})

----------------------------------------------------------------------------
(* df_selected.to_csv(output_csv, index=False) *)

HeaderLine == <<"P", "e", "r", "i", "o", "d", ",", "A", "m", "o", "u", "n", "t">>

NL == "\n"

RECURSIVE DoubleQuotes(_)
DoubleQuotes(s) ==
  IF s = <<>> THEN <<>>
  ELSE IF Head(s) = "\"" THEN <<"\"", "\"">> \o DoubleQuotes(Tail(s))
       ELSE <<Head(s)>> \o DoubleQuotes(Tail(s))

\* csv.QUOTE_MINIMAL: a field holding the delimiter, the quote character or
\* a line break is written between quotes, its quotes doubled.
NeedsQuote(s) == \E i \in 1..Len(s) : s[i] \in {",", "\"", "\n", "\r"}

CsvField(v) ==
  IF v.k = "nan" THEN <<>>
  ELSE IF v.k = "str" /\ NeedsQuote(v.s)
       THEN <<"\"">> \o DoubleQuotes(v.s) \o <<"\"">>
       ELSE ToStr(v)

\* Variant: to_csv without index=False, the row label leads each line.
CsvLineIndexed(rec) ==
  <<"0", ",">> \o CsvField(rec.Period) \o <<",">> \o CsvField(rec.Amount)
     \o <<NL>>

CsvLine(rec) == CsvField(rec.Period) \o <<",">> \o CsvField(rec.Amount) \o <<NL>>

ToCsv(recs) ==
  HeaderLine \o <<NL>> \o Concat([i \in 1..Len(recs) |-> CsvLine(recs[i])])

\* Variant: the file is opened for appending.
WriteFileAppend(old, text) == [exists |-> TRUE, text |-> old.text \o text]

\* open(output_csv, 'w'): the file is created or replaced.
WriteFile(old, text) == [exists |-> TRUE, text |-> text]

\* Variant: the output file is opened (and so emptied) before the work.
OnErrorTruncated(old) == [exists |-> TRUE, text |-> <<>>]

\* The except clauses print a message and touch no file.
OnError(old) == old

----------------------------------------------------------------------------
(* clean_earnings_data as a function of the input file *)

Fail(o, nn) == [outcome |-> o, non_numeric |-> nn, saved |-> <<>>]

Indexes(recs) == {recs[i].idx : i \in 1..Len(recs)}

\* Lines 48: the Amount of every record sanitized.
SanitizeAll(sel) ==
  [i \in 1..Len(sel) |->
     [idx |-> sel[i].idx, Period |-> sel[i].Period,
      Amount |-> Sanitize(sel[i].Amount)]]

\* Row labels of the records whose Amount_numeric is true.
Numeric(cleaned) ==
  {cleaned[i].idx : i \in
     {i \in 1..Len(cleaned) : AmountNumeric(cleaned[i].Amount)}}

\* Line 72 on the parsed amounts f of the records valid.
Coerced(valid, f) ==
  [i \in 1..Len(valid) |->
     [idx |-> valid[i].idx, Period |-> valid[i].Period, Amount |-> f[i].val]]

\* Lines 72-85: conversion, null filtering; the table to be saved.
CoerceStep(nonnum, valid, f) ==
  IF \E i \in 1..Len(f) : ~f[i].ok THEN Fail("UnexpectedError", nonnum)
  ELSE [outcome |-> "Saved", non_numeric |-> nonnum,
        saved |-> DropNa(Coerced(valid, f))]

\* Line 72: float() of every remaining Amount.
ConvertStep(nonnum, valid) ==
  CoerceStep(nonnum, valid, [i \in 1..Len(valid) |-> AsFloat(valid[i].Amount)])

\* Lines 57-69: the rows failing validation are removed.
ValidateStep(cleaned, numeric) ==
  ConvertStep(Indexes(cleaned) \ numeric, KeepRows(cleaned, numeric))

\* Lines 44-57.
SelectStep(cleaned) == ValidateStep(cleaned, Numeric(cleaned))

\* Lines 29-48.
SchemaStep(columns, data) ==
  IF ~SchemaOk(columns) THEN Fail("SchemaError", {})
  ELSE SelectStep(SanitizeAll(Select(columns, data)))

\* Lines 19-41.
LoadStep(df) ==
  IF df.error # "none" THEN Fail(df.error, {})
  ELSE SchemaStep(Truncate(df.columns), df.data)

Clean(file) == LoadStep(ReadCsv(file))

----------------------------------------------------------------------------
(* Input files and initial states *)

X == <<"x">>

PeriodCells ==
  { <<"Q", "1">>, <<>>, <<"a", ",", "b">>, <<"a", "\"", "b">>, <<"0", "7">> }

AmountCells ==
  { <<"7">>, <<"$", " ", "1", ".", "5", "0">>, <<"1", ".", ".">>,
    <<"5", ".">>, <<>>, <<"-", "5">> }

\* Headers tried with every table of rows.
FullHeaders == { <<"Period", "Amount">> }

\* Headers tried with the tables over SmallRows.
OtherHeaders ==
  { <<"Period", "Amount", "Extra">>,
    <<"Extra", "Period", "Amount", "Extra2">>,
    <<"Period", "Extra", "Extra2", "Amount">>,
    <<"Amount", "Extra", "Extra2", "Period">>,
    <<"Period", "Extra">>,
    <<"period", "Amount">> }

SmallRows ==
  { << <<"Q", "1">>, <<"7">> >>,
    << <<>>, <<"$", " ", "1", ".", "5", "0">> >>,
    << <<"a", ",", "b">>, <<"1", ".", ".">> >> }

\* A data line under header h with Period cell p and Amount cell a.
Row(h, p, a) ==
  [j \in 1..Len(h) |->
     IF h[j] = "Period" THEN p ELSE IF h[j] = "Amount" THEN a ELSE X]

File(h, rows) == [exists |-> TRUE, header |-> h, rows |-> rows]

MissingFile == [exists |-> FALSE, header |-> <<>>, rows |-> <<>>]

EmptyFile == File(<<>>, <<>>)

\* Period<TAB>Amount<TAB>Extra / Q1<TAB>$1,000.50<TAB>foo / Q2<TAB>N/A<TAB>bar
ExampleFile ==
  File(<<"Period", "Amount", "Extra">>,
       << << <<"Q", "1">>, <<"$", "1", ",", "0", "0", "0", ".", "5", "0">>,
             <<"f", "o", "o">> >>,
          << <<"Q", "2">>, <<"N", "/", "A">>, <<"b", "a", "r">> >> >>)

Table(h, t) == File(h, [i \in 1..Len(t) |-> Row(h, t[i][1], t[i][2])])

Files ==
  { Table(h, t) : h \in FullHeaders,
                  t \in SeqsUpTo(PeriodCells \X AmountCells, MaxRows) }
  \cup { Table(h, t) : h \in OtherHeaders, t \in SeqsUpTo(SmallRows, MaxRows) }
  \cup {MissingFile, EmptyFile, ExampleFile}

NoFile == [exists |-> FALSE, text |-> <<>>]

OldFile == [exists |-> TRUE, text |-> <<"o", "l", "d", NL>>]

NotRun == [outcome |-> "none", non_numeric |-> {}, saved |-> <<>>]

Init ==
  /\ inFile \in Files
  /\ outFile \in {NoFile, OldFile}
  /\ outBefore = outFile
  /\ last = NotRun

\* Line 85 or lines 88-95: the output file after a run with result r.
Persist(old, r) ==
  IF r.outcome = "Saved" THEN WriteFile(old, ToCsv(r.saved)) ELSE OnError(old)

Finish(r) ==
  /\ last' = r
  /\ outBefore' = outFile
  /\ outFile' = Persist(outFile, r)
  /\ UNCHANGED inFile

\* One call clean_earnings_data(input_csv, output_csv).
clean_earnings_data == Finish(Clean(inFile))

Next == clean_earnings_data

Spec == Init /\ [][Next]_vars

\* One-row inputs whose Amount cell ranges over every short string.
AmountChars == {"1", "0", ".", "-", "$", " ", ","}

InitAmount ==
  /\ inFile \in { File(<<"Period", "Amount">>, << << <<"Q", "1">>, a >> >>) :
                    a \in SeqsUpTo(AmountChars, MaxAmountLen) }
  /\ outFile = NoFile
  /\ outBefore = outFile
  /\ last = NotRun

SpecAmount == InitAmount /\ [][Next]_vars

TypeOK ==
  /\ last.outcome \in {"none", "FileNotFoundError", "EmptyDataError",
                       "SchemaError", "UnexpectedError", "Saved"}
  /\ outFile.exists \in BOOLEAN

----------------------------------------------------------------------------
(* Vocabulary of the properties *)

Ran == last.outcome # "none"

Saved == last.outcome = "Saved"

\* Names among the first three header cells of the input file.
FirstThree == {inFile.header[j] : j \in (1..Len(inFile.header)) \cap (1..3)}

HasBoth == inFile.exists /\ {"Period", "Amount"} \subseteq FirstThree

RawCell(i, name) == inFile.rows[i][ColumnIndex(inFile.header, name)]

\* The Amount cell as written in the input, '$' and ',' removed, trimmed.
RawCleaned(i) == Strip(RemoveChars(RawCell(i, "Amount"), {"$", ","}))

\* ^\d+(\.\d+)?$
RegexDecimal(s) ==
  LET dot == IndexOf(s, ".", 1)
  IN IF dot = 0 THEN IsDigit(s)
     ELSE IsDigit(SubSeq(s, 1, dot - 1)) /\ IsDigit(SubSeq(s, dot + 1, Len(s)))

SavedRows == {last.saved[k].idx : k \in 1..Len(last.saved)}

\* The cleaned Amount string of input row i, as the validation step sees it.
CleanedAmount(i) ==
  Sanitize(ReadCsv(inFile).data[i][ColumnIndex(inFile.header, "Amount")])

\* At most one decimal point, and digits only (at least one) besides it.
OneDotDigits(s) ==
  /\ Cardinality({i \in 1..Len(s) : s[i] = "."}) <= 1
  /\ IsDigit(RemoveChars(s, {"."}))

\* The output file read back naively: lines after the header line.
DataLines(text) ==
  LET ls == Split(text, NL) IN SubSeq(ls, 2, Len(ls) - 1)

PlainText(s) == \A i \in 1..Len(s) : s[i] \notin {",", "\"", "\n", "\r"}

----------------------------------------------------------------------------
(* Properties *)

\* C1: for an input with Period and Amount columns the records written are
\* exactly the input rows whose Amount cell, '$' and ',' removed and
\* trimmed, matches ^\d+(\.\d+)?$.
C1_ExactlyRegexRows ==
  (Ran /\ HasBoth) =>
     /\ Saved
     /\ SavedRows = {i \in 1..Len(inFile.rows) : RegexDecimal(RawCleaned(i))}

\* C2: every input that passes the schema check reaches Persist and writes
\* a complete output file; coercion to float never fails on a validated row.
C2_SchemaPassWrites ==
  (Ran /\ HasBoth) =>
     /\ Saved
     /\ outFile = [exists |-> TRUE, text |-> ToCsv(last.saved)]

\* C3: with more than 3 columns only the first 3 count; if Period or Amount
\* is not among them the run reports a schema error and leaves the output
\* file uncreated and unwritten.
C3_SchemaErrorNoOutput ==
  (Ran /\ inFile.exists /\ inFile.header # <<>> /\ ~HasBoth) =>
     /\ last.outcome = "SchemaError"
     /\ outFile = outBefore

C3_Witness ==
  /\ Ran
  /\ Len(inFile.header) > 3
  /\ inFile.header[4] = "Amount"
  /\ Len(inFile.rows) > 0
  /\ last.outcome = "SchemaError"
  /\ outFile = NoFile

C5_NoRowsIsEmptyError ==
  (Ran /\ inFile.exists /\ inFile.rows = <<>>) =>
     /\ last.outcome = "EmptyDataError"
     /\ outFile = outBefore

\* C5 (amended): a completely empty input file fails with EmptyInputError
\* and nothing is written; a file holding only a header line is not an
\* empty-input error, and when its header passes the schema check the run
\* writes an output file holding just the header line.
C5_EmptyFileIsEmptyError ==
  Ran =>
     /\ (inFile.exists /\ inFile.header = <<>>) =>
           (last.outcome = "EmptyDataError" /\ outFile = outBefore)
     /\ (inFile.exists /\ inFile.header # <<>> /\ inFile.rows = <<>>) =>
           /\ last.outcome # "EmptyDataError"
           /\ HasBoth =>
                outFile = [exists |-> TRUE, text |-> HeaderLine \o <<NL>>]

C5_Witness ==
  /\ last.outcome = "EmptyDataError"
  /\ inFile = EmptyFile
  /\ outFile = OldFile

\* Record k of the saved table is recovered from data line k by a split
\* on ',': two fields, the Period text and the Amount as a number.
Recovered(k) ==
  LET lines  == DataLines(outFile.text)
      fields == Split(lines[k], ",")
  IN /\ k <= Len(lines)
     /\ Len(fields) = 2
     /\ fields[1] = ToStr(last.saved[k].Period)
     /\ AsFloat(fields[2]).ok
     /\ AsFloat(fields[2]).val = last.saved[k].Amount

\* C6 (as stated): every record written is recovered by the naive split,
\* also when its Period holds a comma or a quote character.
C6_RoundTripAnyPeriod ==
  Saved =>
     /\ Len(DataLines(outFile.text)) = Len(last.saved)
     /\ \A k \in 1..Len(last.saved) : Recovered(k)

\* C6 (amended): every record written whose Period holds no comma, no
\* quote character and no line break is recovered by the naive split; a
\* Period holding a comma or a quote is written quoted and is not.
C6_RoundTripPlainPeriod ==
  Saved =>
     /\ Len(DataLines(outFile.text)) = Len(last.saved)
     /\ \A k \in 1..Len(last.saved) :
          PlainText(ToStr(last.saved[k].Period)) <=> Recovered(k)

C6_Witness ==
  /\ Saved
  /\ \E k \in 1..Len(last.saved) :
       /\ last.saved[k].Period = StrVal(<<"Q", "1">>)
       /\ last.saved[k].Amount = FloatVal(FALSE, <<"1">>, <<"5">>)
       /\ Recovered(k)

\* C7: a run after the first, on the same input and output path, leaves
\* the output file as the previous run left it.
C7_Idempotent == [][Ran => outFile' = outFile]_vars

C7_Witness ==
  /\ Saved
  /\ Len(last.saved) > 0
  /\ outBefore = outFile

ExampleAmended ==
  HeaderLine \o <<NL, "Q", "1", ",", "1", "0", "0", "0", ".", "5", NL>>

ExampleStated ==
  HeaderLine \o <<NL, "Q", "1", ",", "1", "0", "0", "0", ".", "5", "0", NL>>

\* C8 (as stated): the example input yields the header line and the single
\* line Q1,1000.50.
C8_ExampleStated ==
  (Ran /\ inFile = ExampleFile) =>
     outFile = [exists |-> TRUE, text |-> ExampleStated]

\* C8 (amended): the example input yields the header line and the single
\* line Q1,1000.5 (the amount is written as a float, without the trailing
\* zero); the Q2 row is dropped as non-numeric.
C8_ExampleAmended ==
  (Ran /\ inFile = ExampleFile) =>
     /\ outFile = [exists |-> TRUE, text |-> ExampleAmended]
     /\ last.non_numeric = {2}

C8_Witness == Ran /\ inFile = ExampleFile /\ outFile.exists

\* C9: the validation step accepts a cleaned Amount string iff it has at
\* most one decimal point and otherwise only digits (at least one), and
\* every rejected row is dropped before type coercion.
C9_AcceptsIffOneDotDigits ==
  (Ran /\ HasBoth) =>
     \A i \in 1..Len(inFile.rows) :
        /\ (i \notin last.non_numeric) <=> OneDotDigits(CleanedAmount(i))
        /\ i \in last.non_numeric => i \notin SavedRows

\* C10: every record written has a non-empty Period and a numeric Amount;
\* no input row with an empty Period or Amount cell is written.
C10_NoMissingValues ==
  Saved =>
     /\ \A k \in 1..Len(last.saved) :
          /\ last.saved[k].Period.k # "nan"
          /\ CsvField(last.saved[k].Period) # <<>>
          /\ last.saved[k].Amount.k = "float"
          /\ RawCell(last.saved[k].idx, "Period") # <<>>
          /\ RawCell(last.saved[k].idx, "Amount") # <<>>
     /\ \A l \in 1..Len(DataLines(outFile.text)) :
          LET line == DataLines(outFile.text)[l]
          IN line # <<>> /\ Head(line) # "," /\ line[Len(line)] # ","

C10_Witness ==
  /\ Saved
  /\ Len(last.saved) > 0
  /\ \E i \in 1..Len(inFile.rows) :
       /\ RawCell(i, "Period") = <<>>
       /\ RawCell(i, "Amount") = <<"7">>

====
